---- MODULE Spec2Model ----
(***************************************************************************)
(* A model of the polymarket_app arbitrage engine: the price model         *)
(* (data/models.py), the single-condition detector and the depth-aware     *)
(* estimator (arbitrage/single_condition.py) and the two batch scanners    *)
(* (scanner.py, dashboard.py) with the catalog client they call            *)
(* (data/gamma.py, data/clob.py).                                          *)
(*                                                                         *)
(* Prices, sizes and thresholds are Python floats in the source.  Here     *)
(* they are integers counted in ticks of 1/(2*Half) of a currency unit, so *)
(* the literal 1.0 of the source is the integer One.  Optional[T] is a     *)
(* set with at most one element: None is {} and a value x is {x}.  A call  *)
(* that can raise returns a record with a "raised" flag.                   *)
(***************************************************************************)
EXTENDS Integers, Sequences, FiniteSets, TLC

VARIABLES
    market,     \* the Market handed to the detector
    call,       \* the arguments of the last detector call
    result,     \* what that call returned (or that it raised)
    opp,        \* the ArbitrageOpportunity handed to the estimator
    estimate,   \* the last max_extractable_usd call: its max_size and its result
    raws,       \* the raw market payloads the catalog service returns to a scan
    scan,       \* a batch scan: its position, its markets, what it has reported
    before,     \* the market and the explicit pair as they were handed to the detector
    second,     \* a second detector call with the arguments of the first
    book,       \* the OrderBook whose vwap_buy / vwap_sell is called
    vwap,       \* the last vwap call: its side, its size and its result
    oracle,     \* a frank_wolfe_oracle call: its arguments and its result
    theta,      \* the caller's array handed to bregman_projection_lmsr
    projection, \* the last bregman_projection_lmsr call and its result
    exec,       \* an ExecutionClient and the execute_* call running on it
    exchange    \* the trading service: the posts it received, the orders it holds

twiceVars == <<before, second>>

modelsVars == <<book, vwap>>

bregmanVars == <<oracle, theta, projection>>

executionVars == <<exec, exchange>>

vars ==
    <<market, call, result, opp, estimate, raws, scan, twiceVars, modelsVars, bregmanVars,
      executionVars>>

----------------------------------------------------------------------------
(* Bounds *)

Half == 2           \* price resolution: half a currency unit (0.5) in ticks
MaxPrice == 3       \* catalog and explicit prices range over 1..MaxPrice
MaxProfit == 2      \* thresholds range over 0..MaxProfit
MaxSize == 2        \* order-book level sizes range over 1..MaxSize
MaxLevels == 2      \* levels (bids and asks together) of an estimator's book
MaxMargin == 2      \* profit margins of estimated opportunities
MaxMarkets == 2     \* raw markets in the payload of a scan
MaxDim == 3         \* length of a gradient handed to the extraction oracle
MaxGrad == 1        \* gradient components range over -1..MaxGrad

One == 2 * Half

None == {}

Some(x) == {x}

The(opt) == CHOOSE x \in opt : TRUE

Min2(a, b) == IF a <= b THEN a ELSE b

Abs(x) == IF x < 0 THEN -x ELSE x

SeqsUpTo(S, n) == UNION {[1..k -> S] : k \in 0..n}

----------------------------------------------------------------------------
(* data/models.py: ConditionPrices *)

ConditionPrices(tid_yes, tid_no, p_yes, p_no, o_yes, o_no) ==
    [token_id_yes |-> tid_yes, token_id_no |-> tid_no,
     price_yes |-> p_yes, price_no |-> p_no,
     outcome_yes |-> o_yes, outcome_no |-> o_no]

sum_prices(cp) == cp.price_yes + cp.price_no

arbitrage_up(cp) == sum_prices(cp) > One

arbitrage_down(cp) == sum_prices(cp) < One

\* A margin that keeps the sign of sum - 1.
profit_margin_Signed(cp) == sum_prices(cp) - One

profit_margin(cp) ==
    IF arbitrage_up(cp) THEN sum_prices(cp) - One
    ELSE IF arbitrage_down(cp) THEN One - sum_prices(cp)
    ELSE 0

----------------------------------------------------------------------------
(* data/models.py: OrderBook.  A level is <<price, size>>. *)

OrderBook(aid, bids, asks) == [asset_id |-> aid, bids |-> bids, asks |-> asks]

LevelPrices(levels) == {levels[i][1] : i \in DOMAIN levels}

best_bid(ob) ==
    IF ob.bids = <<>> THEN None
    ELSE Some(CHOOSE p \in LevelPrices(ob.bids) :
                  \A q \in LevelPrices(ob.bids) : q <= p)

best_ask(ob) ==
    IF ob.asks = <<>> THEN None
    ELSE Some(CHOOSE p \in LevelPrices(ob.asks) :
                  \A q \in LevelPrices(ob.asks) : p <= q)

----------------------------------------------------------------------------
(* data/models.py: Market *)

_gamma_prices(m) ==
    IF Len(m.outcomes) < 2 \/ Len(m.outcome_prices) < 2 \/ Len(m.clob_token_ids) < 2
    THEN None
    ELSE Some(ConditionPrices(m.clob_token_ids[1], m.clob_token_ids[2],
                              m.outcome_prices[1], m.outcome_prices[2],
                              m.outcomes[1], m.outcomes[2]))

get_prices(m) == _gamma_prices(m)

\* The labels of get_order_book_prices: outcomes[0] if outcomes else "Yes",
\* outcomes[1] if len(outcomes) > 1 else "No".
LabelYes(m) == IF m.outcomes # <<>> THEN m.outcomes[1] ELSE "Yes"

LabelNo(m) == IF Len(m.outcomes) > 1 THEN m.outcomes[2] ELSE "No"

\* [raised, value]: value is None or Some([buy, sell]).  Building the first
\* ConditionPrices indexes clob_token_ids[0] and [1] without a length check,
\* which is an IndexError on a market with fewer than two token ids.
get_order_book_prices(m) ==
    IF m.order_book_yes = None \/ m.order_book_no = None
    THEN [raised |-> FALSE, value |-> None]
    ELSE LET best_ask_yes == best_ask(The(m.order_book_yes))
             best_ask_no == best_ask(The(m.order_book_no))
             best_bid_yes == best_bid(The(m.order_book_yes))
             best_bid_no == best_bid(The(m.order_book_no))
         IN  IF best_ask_yes = None \/ best_ask_no = None
                \/ best_bid_yes = None \/ best_bid_no = None
             THEN [raised |-> FALSE, value |-> None]
             ELSE IF Len(m.clob_token_ids) < 2
             THEN [raised |-> TRUE, value |-> None]
             ELSE [raised |-> FALSE,
                   value |-> Some(
                     [buy |-> ConditionPrices(m.clob_token_ids[1], m.clob_token_ids[2],
                                              The(best_ask_yes), The(best_ask_no),
                                              LabelYes(m), LabelNo(m)),
                      sell |-> ConditionPrices(m.clob_token_ids[1], m.clob_token_ids[2],
                                               The(best_bid_yes), The(best_bid_no),
                                               LabelYes(m), LabelNo(m))])]

----------------------------------------------------------------------------
(* arbitrage/single_condition.py: detect_single_condition_arbitrage *)

\* An explicit clob_prices argument is None or a dict; a dict is a record
\* whose buy and sell fields are None when the key is missing.  Python's
\* "if clob_prices:" is false for None and for the empty dict.
DictTruthy(clob_prices) ==
    /\ clob_prices # None
    /\ (The(clob_prices).buy # None \/ The(clob_prices).sell # None)

\* SelectPrices with the order-book branch tested before the explicit pair.
SelectPrices_BookFirst(m, use_order_book, clob_prices) ==
    IF use_order_book
    THEN LET ob_prices == get_order_book_prices(m)
         IN  IF ob_prices.raised
             THEN [raised |-> TRUE, buy |-> None, sell |-> None]
             ELSE IF ob_prices.value # None
             THEN [raised |-> FALSE,
                   buy |-> Some(The(ob_prices.value).buy),
                   sell |-> Some(The(ob_prices.value).sell)]
             ELSE [raised |-> FALSE, buy |-> get_prices(m), sell |-> get_prices(m)]
    ELSE IF DictTruthy(clob_prices)
    THEN [raised |-> FALSE, buy |-> The(clob_prices).buy, sell |-> The(clob_prices).sell]
    ELSE [raised |-> FALSE, buy |-> get_prices(m), sell |-> get_prices(m)]

\* Lines 61-70: the price pair the detector evaluates.
SelectPrices(m, use_order_book, clob_prices) ==
    IF DictTruthy(clob_prices)
    THEN [raised |-> FALSE, buy |-> The(clob_prices).buy, sell |-> The(clob_prices).sell]
    ELSE IF use_order_book
    THEN LET ob_prices == get_order_book_prices(m)
         IN  IF ob_prices.raised
             THEN [raised |-> TRUE, buy |-> None, sell |-> None]
             ELSE IF ob_prices.value # None
             THEN [raised |-> FALSE,
                   buy |-> Some(The(ob_prices.value).buy),
                   sell |-> Some(The(ob_prices.value).sell)]
             ELSE [raised |-> FALSE, buy |-> get_prices(m), sell |-> get_prices(m)]
    ELSE [raised |-> FALSE, buy |-> get_prices(m), sell |-> get_prices(m)]

\* Lines 19-35 as the detector fills them (lines 78-93, 97-112).  market_id
\* stands for the fields copied from the market unchanged (id, question,
\* slug, event_slug, end_date).
\* An opportunity built without the market's order books.
ArbitrageOpportunity_NoBooks(m, direction, cp) ==
    [market_id |-> m.id,
     direction |-> direction,
     price_yes |-> cp.price_yes,
     price_no |-> cp.price_no,
     sum_prices |-> sum_prices(cp),
     profit_margin |-> profit_margin(cp),
     token_id_yes |-> cp.token_id_yes,
     token_id_no |-> cp.token_id_no,
     order_book_yes |-> None,
     order_book_no |-> None]

ArbitrageOpportunity(m, direction, cp) ==
    [market_id |-> m.id,
     direction |-> direction,
     price_yes |-> cp.price_yes,
     price_no |-> cp.price_no,
     sum_prices |-> sum_prices(cp),
     profit_margin |-> profit_margin(cp),
     token_id_yes |-> cp.token_id_yes,
     token_id_no |-> cp.token_id_no,
     order_book_yes |-> m.order_book_yes,
     order_book_no |-> m.order_book_no]

\* BuyBothOpps with a strict threshold test.
BuyBothOpps_Strict(m, min_profit, buy_prices) ==
    IF arbitrage_down(buy_prices) /\ profit_margin(buy_prices) > min_profit
    THEN <<ArbitrageOpportunity(m, "buy_both", buy_prices)>>
    ELSE <<>>

\* Lines 76-94.
BuyBothOpps(m, min_profit, buy_prices) ==
    IF arbitrage_down(buy_prices) /\ profit_margin(buy_prices) >= min_profit
    THEN <<ArbitrageOpportunity(m, "buy_both", buy_prices)>>
    ELSE <<>>

\* SellBothOpps that takes any sum other than 1 for a sum above 1.
SellBothOpps_OffOne(m, min_profit, sell_prices) ==
    IF sum_prices(sell_prices) # One /\ Abs(sum_prices(sell_prices) - One) >= min_profit
    THEN <<ArbitrageOpportunity(m, "sell_both", sell_prices)>>
    ELSE <<>>

\* SellBothOpps with the threshold test turned round.
SellBothOpps_AtMost(m, min_profit, sell_prices) ==
    IF arbitrage_up(sell_prices) /\ profit_margin(sell_prices) <= min_profit
    THEN <<ArbitrageOpportunity(m, "sell_both", sell_prices)>>
    ELSE <<>>

\* Lines 95-113.
SellBothOpps(m, min_profit, sell_prices) ==
    IF arbitrage_up(sell_prices) /\ profit_margin(sell_prices) >= min_profit
    THEN <<ArbitrageOpportunity(m, "sell_both", sell_prices)>>
    ELSE <<>>

\* EmitOpps with the two checks in the other order.
EmitOpps_SellFirst(m, min_profit, buy_prices, sell_prices) ==
    SellBothOpps(m, min_profit, sell_prices) \o BuyBothOpps(m, min_profit, buy_prices)

\* Lines 75-114: opps starts empty, the buy check appends first, the sell
\* check second.
EmitOpps(m, min_profit, buy_prices, sell_prices) ==
    BuyBothOpps(m, min_profit, buy_prices) \o SellBothOpps(m, min_profit, sell_prices)

\* The whole call: [raised, buy, sell, opps].  buy and sell are the selected
\* pair (None when the source had none), opps the returned list.
detect_single_condition_arbitrage(m, min_profit, use_order_book, clob_prices) ==
    LET sel == SelectPrices(m, use_order_book, clob_prices)
    IN  IF sel.raised
        THEN [raised |-> TRUE, buy |-> None, sell |-> None, opps |-> <<>>]
        ELSE IF sel.buy = None \/ sel.sell = None
        THEN [raised |-> FALSE, buy |-> sel.buy, sell |-> sel.sell, opps |-> <<>>]
        ELSE [raised |-> FALSE, buy |-> sel.buy, sell |-> sel.sell,
              opps |-> EmitOpps(m, min_profit, The(sel.buy), The(sel.sell))]

----------------------------------------------------------------------------
(* arbitrage/single_condition.py: ArbitrageOpportunity.max_extractable_usd *)

RECURSIVE SumSizes(_)
SumSizes(levels) ==
    IF levels = <<>> THEN 0 ELSE levels[1][2] + SumSizes(Tail(levels))

\* LegDepth that sums the asks whatever the direction.
LegDepth_AsksOnly(direction, ob) == SumSizes(ob.asks)

\* Lines 44-48: depth is summed over asks, and over bids when the direction
\* is sell_both.
LegDepth(direction, ob) ==
    IF direction = "sell_both" THEN SumSizes(ob.bids) ELSE SumSizes(ob.asks)

\* Lines 49-51.
Cap(yes_depth, no_depth, msize) ==
    LET cap == Min2(yes_depth, no_depth)
    IN  IF msize # None THEN Min2(cap, The(msize)) ELSE cap

\* max_extractable_usd that answers zero for an absent book.
max_extractable_usd_ZeroWhenAbsent(o, msize) ==
    IF o.order_book_yes = None \/ o.order_book_no = None
    THEN Some(0)
    ELSE Some(o.profit_margin
              * Cap(LegDepth(o.direction, The(o.order_book_yes)),
                    LegDepth(o.direction, The(o.order_book_no)), msize))

\* Lines 41-52.
max_extractable_usd(o, msize) ==
    IF o.order_book_yes = None \/ o.order_book_no = None
    THEN None
    ELSE Some(o.profit_margin
              * Cap(LegDepth(o.direction, The(o.order_book_yes)),
                    LegDepth(o.direction, The(o.order_book_no)), msize))

----------------------------------------------------------------------------
(* The inputs the detector is driven with *)

Thresholds == 0..MaxProfit

Outcomes == {<<>>, <<"Yes">>, <<"Yes", "No">>}

TokenIds == {<<>>, <<"ty">>, <<"ty", "tn">>}

OutcomePrices == SeqsUpTo(1..MaxPrice, 2)

\* Level lists with one level of size 1 per price, at the lowest and the
\* highest price, in either order.
BookPrices == {1, MaxPrice}

PriceLists ==
    {<<>>} \cup {<<<<p, 1>>>> : p \in BookPrices}
           \cup {<<<<pq[1], 1>>, <<pq[2], 1>>>> :
                    pq \in {x \in BookPrices \X BookPrices : x[1] # x[2]}}

PricedBooks(aid) ==
    {None} \cup {Some(OrderBook(aid, b, a)) : b \in PriceLists, a \in PriceLists}

PopulatedBook(aid) == Some(OrderBook(aid, <<<<MaxPrice, 1>>>>, <<<<1, 1>>>>))

Market(outcomes, outcome_prices, clob_token_ids, ob_yes, ob_no) ==
    [id |-> "m",
     outcomes |-> outcomes,
     outcome_prices |-> outcome_prices,
     clob_token_ids |-> clob_token_ids,
     order_book_yes |-> ob_yes,
     order_book_no |-> ob_no]

\* Markets of every shape (list lengths 0, 1, 2) with absent or populated books.
ShapeMarkets ==
    {Market(o, p, t, by, bn) :
        o \in Outcomes, p \in OutcomePrices, t \in TokenIds,
        by \in {None, PopulatedBook("ty")}, bn \in {None, PopulatedBook("tn")}}

\* Well-formed binary markets with every combination of order books.
BookMarkets ==
    {Market(<<"Yes", "No">>, <<2, 1>>, <<"ty", "tn">>, by, bn) :
        by \in PricedBooks("ty"), bn \in PricedBooks("tn")}

Markets == ShapeMarkets \cup BookMarkets

\* Explicit pairs carry their own token ids.  Buy pairs have sums from 2 to
\* MaxPrice + 1 and 2 * MaxPrice, sell pairs from MaxPrice + 1 to 2 * MaxPrice and 2.
ExplicitPrice(p, q) == ConditionPrices("cy", "cn", p, q, "Yes", "No")

ExplicitBuys ==
    {ExplicitPrice(p, 1) : p \in 1..MaxPrice} \cup {ExplicitPrice(MaxPrice, MaxPrice)}

ExplicitSells ==
    {ExplicitPrice(p, MaxPrice) : p \in 1..MaxPrice} \cup {ExplicitPrice(1, 1)}

ClobPrices ==
    {None, Some([buy |-> None, sell |-> None])}
    \cup {Some([buy |-> Some(ExplicitPrice(1, 1)), sell |-> None])}
    \cup {Some([buy |-> None, sell |-> Some(ExplicitPrice(MaxPrice, MaxPrice))])}
    \cup {Some([buy |-> Some(b), sell |-> Some(s)]) : b \in ExplicitBuys, s \in ExplicitSells}

NoCall == [min_profit |-> 0, use_order_book |-> FALSE, clob_prices |-> None, made |-> FALSE]

NoResult == [raised |-> FALSE, buy |-> None, sell |-> None, opps |-> <<>>]

NoScan ==
    [pc |-> "idle", mode |-> "cli", min_profit |-> 0, binary |-> <<>>, i |-> 0,
     opps |-> <<>>, opps_any |-> <<>>, detected |-> {}]

NoEstimate == [made |-> FALSE, max_size |-> None, usd |-> None]

NoOpp ==
    [market_id |-> "", direction |-> "", price_yes |-> 0, price_no |-> 0,
     sum_prices |-> 0, profit_margin |-> 0, token_id_yes |-> "", token_id_no |-> "",
     order_book_yes |-> None, order_book_no |-> None]

NoSecond == [made |-> FALSE, result |-> NoResult]

NoVwap == [made |-> FALSE, side |-> "", size |-> 0, value |-> None]

NoOracle ==
    [made |-> FALSE, gradient |-> <<>>, constraint_matrix |-> <<>>,
     constraint_rhs |-> <<>>, z |-> <<>>]

NoProjection == [made |-> FALSE, mu |-> <<>>, success |-> FALSE]

NoExec ==
    [pc |-> "idle", method |-> "", size |-> 0, dry_run |-> TRUE, _client |-> None,
     constructed |-> 0, leg |-> 0, order_ids |-> <<>>, ret |-> None]

NoExchange == [posts |-> <<>>, open |-> {}]

IdleExecution == exec = NoExec /\ exchange = NoExchange

IdleTwice == before = None /\ second = NoSecond

IdleModels == book = OrderBook("", <<>>, <<>>) /\ vwap = NoVwap

IdleBregman == oracle = NoOracle /\ theta = <<>> /\ projection = NoProjection

----------------------------------------------------------------------------
(* The detector as a state machine: a market, then calls of the detector *)

Init ==
    /\ market \in Markets
    /\ call = NoCall
    /\ result = NoResult
    /\ opp = NoOpp
    /\ estimate = NoEstimate
    /\ raws = <<>>
    /\ scan = NoScan
    /\ IdleExecution /\ IdleTwice /\ IdleModels /\ IdleBregman

\* A detector that takes the order books off the market it is given.
Detect_DropsBooks ==
    \E min_profit \in Thresholds, use_order_book \in BOOLEAN, clob_prices \in ClobPrices :
        /\ ~call.made
        /\ call' = [min_profit |-> min_profit, use_order_book |-> use_order_book,
                    clob_prices |-> clob_prices, made |-> TRUE]
        /\ result' = detect_single_condition_arbitrage(market, min_profit,
                                                       use_order_book, clob_prices)
        /\ before' = Some([market |-> market, clob_prices |-> clob_prices])
        /\ market' = [market EXCEPT !.order_book_yes = None, !.order_book_no = None]
        /\ UNCHANGED <<opp, estimate, raws, scan, second, executionVars, modelsVars, bregmanVars>>

\* The call of detect_single_condition_arbitrage on the market, with any
\* threshold, flag and explicit pair.  The function assigns to nothing but
\* its locals, so the market is left as it is, and so is the explicit pair
\* (call.clob_prices is the pair as the call leaves it).  "before" keeps the
\* market and the pair as they were handed in.
Detect ==
    \E min_profit \in Thresholds, use_order_book \in BOOLEAN, clob_prices \in ClobPrices :
        /\ ~call.made
        /\ call' = [min_profit |-> min_profit, use_order_book |-> use_order_book,
                    clob_prices |-> clob_prices, made |-> TRUE]
        /\ result' = detect_single_condition_arbitrage(market, min_profit,
                                                       use_order_book, clob_prices)
        /\ before' = Some([market |-> market, clob_prices |-> clob_prices])
        /\ UNCHANGED <<market, opp, estimate, raws, scan, second, executionVars, modelsVars, bregmanVars>>

Next == Detect

Spec == Init /\ [][Next]_vars

\* A second call with the arguments of the first, on the market and the pair
\* as the first call left them.
DetectAgain ==
    /\ call.made
    /\ ~second.made
    /\ second' = [made |-> TRUE,
                  result |-> detect_single_condition_arbitrage(market, call.min_profit,
                                 call.use_order_book, call.clob_prices)]
    /\ UNCHANGED <<market, call, result, opp, estimate, raws, scan, before>>
    /\ UNCHANGED <<executionVars, modelsVars, bregmanVars>>

NextTwice == Detect \/ DetectAgain

SpecTwice == Init /\ [][NextTwice]_vars

----------------------------------------------------------------------------
(* The estimator as a state machine: an opportunity as the detector emits
   it (a direction, a positive margin, the market's two order books or
   their absence), then calls of max_extractable_usd *)

\* Level lists of an estimator's book: every level at price 2, sizes 1..MaxSize.
SizeLists == SeqsUpTo({<<2, z>> : z \in 1..MaxSize}, MaxLevels)

SizedBooks(aid) ==
    {None} \cup {Some(OrderBook(aid, ba[1], ba[2])) :
                    ba \in {x \in SizeLists \X SizeLists : Len(x[1]) + Len(x[2]) <= MaxLevels}}

EstimatedOpps ==
    {[market_id |-> "m", direction |-> d, price_yes |-> 1,
      price_no |-> (IF d = "buy_both" THEN One - pm ELSE One + pm) - 1,
      sum_prices |-> IF d = "buy_both" THEN One - pm ELSE One + pm,
      profit_margin |-> pm, token_id_yes |-> "ty", token_id_no |-> "tn",
      order_book_yes |-> by, order_book_no |-> bn] :
        d \in {"buy_both", "sell_both"}, pm \in 1..MaxMargin,
        by \in SizedBooks("ty"), bn \in SizedBooks("tn")}

\* max_size is a float or None; the code accepts any float, a negative one
\* included.
MaxSizes == {None} \cup {Some(z) : z \in -1..MaxSize}

NoMarket == Market(<<>>, <<>>, <<>>, None, None)

InitEstimate ==
    /\ market = NoMarket
    /\ call = NoCall
    /\ result = NoResult
    /\ opp \in EstimatedOpps
    /\ estimate = NoEstimate
    /\ raws = <<>>
    /\ scan = NoScan
    /\ IdleExecution /\ IdleTwice /\ IdleModels /\ IdleBregman

\* One call of opp.max_extractable_usd(max_size), which assigns to nothing.
Estimate ==
    \E msize \in MaxSizes :
        /\ ~estimate.made
        /\ estimate' = [made |-> TRUE, max_size |-> msize,
                        usd |-> max_extractable_usd(opp, msize)]
        /\ UNCHANGED <<market, call, result, opp, raws, scan>>
        /\ UNCHANGED <<executionVars, twiceVars, modelsVars, bregmanVars>>

NextEstimate == Estimate

SpecEstimate == InitEstimate /\ [][NextEstimate]_vars

----------------------------------------------------------------------------
(* data/gamma.py: raw payloads to Market records.  A raw market is the
   decoded JSON of one market: outcomePrices is None when the key is missing
   or does not decode to a list, else a list whose entries are Some(p) when
   float() accepts the entry and None when float() raises on it. *)

RawMarket(id, outcome_prices, clob_token_ids) ==
    [id |-> id, outcomes |-> <<"Yes", "No">>,
     outcomePrices |-> outcome_prices, clobTokenIds |-> clob_token_ids]

\* Line 111: [float(p) for p in outcome_prices] if it is a list, else [0.5, 0.5].
\* [raised, value]: one entry float() rejects raises out of the comprehension.
ParseOutcomePrices(outcome_prices) ==
    IF outcome_prices = None
    THEN [raised |-> FALSE, value |-> <<Half, Half>>]
    ELSE IF \E k \in DOMAIN The(outcome_prices) : The(outcome_prices)[k] = None
    THEN [raised |-> TRUE, value |-> <<>>]
    ELSE [raised |-> FALSE,
          value |-> [k \in DOMAIN The(outcome_prices) |-> The(The(outcome_prices)[k])]]

\* Lines 80-113.
_raw_to_market(raw) ==
    LET prices == ParseOutcomePrices(raw.outcomePrices)
    IN  [raised |-> prices.raised,
         value |-> [Market(raw.outcomes, prices.value, raw.clobTokenIds, None, None)
                        EXCEPT !.id = raw.id]]

\* Lines 73-78 and 115-134: every market of every event is converted in one
\* loop with no handler, so one conversion that raises ends the fetch.
fetch_active_markets(payload) ==
    IF \E k \in DOMAIN payload : _raw_to_market(payload[k]).raised
    THEN [raised |-> TRUE, value |-> <<>>]
    ELSE [raised |-> FALSE, value |-> [k \in DOMAIN payload |-> _raw_to_market(payload[k]).value]]

\* scanner.py 36-42, dashboard.py 80-86: the binary filter.
IsBinary(m) ==
    /\ Len(m.clob_token_ids) >= 2
    /\ m.clob_token_ids[1] # ""
    /\ m.clob_token_ids[2] # ""

BinaryMarkets(markets) == SelectSeq(markets, IsBinary)

----------------------------------------------------------------------------
(* data/clob.py: what one request to the matching engine can answer *)

\* get_order_book raises on an HTTP error, returns None on an error payload
\* and an OrderBook otherwise.
BookFetches(aid) ==
    {[raised |-> TRUE, value |-> None],
     [raised |-> FALSE, value |-> None],
     [raised |-> FALSE, value |-> PopulatedBook(aid)]}

\* get_clob_prices returns None when any of the four quotes is missing (get_price
\* swallows its errors), else the pair of the four quotes.
ClobQuotes(m) ==
    {None,
     Some([buy |-> Some(ConditionPrices(m.clob_token_ids[1], m.clob_token_ids[2],
                                        1, 1, LabelYes(m), LabelNo(m))),
           sell |-> Some(ConditionPrices(m.clob_token_ids[1], m.clob_token_ids[2],
                                         MaxPrice, MaxPrice, LabelYes(m), LabelNo(m)))])}

----------------------------------------------------------------------------
(* scanner.py run_scan and dashboard.py main.scan as one state machine.
   scan.mode is "cli" for run_scan and the dashboard's price source for
   main.scan. *)

Modes == {"cli", "CLOB price API", "Order book", "Gamma"}

RawPrices ==
    {None, Some(<<Some(1)>>), Some(<<Some(1), Some(2)>>), Some(<<Some(2), None>>)}

RawMarkets(id) ==
    {RawMarket(id, p, t) : p \in RawPrices, t \in {<<"ty">>, <<"ty", "tn">>}}

MarketId(k) == "m" \o ToString(k)

Payloads ==
    UNION {{f \in [1..n -> UNION {RawMarkets(MarketId(k)) : k \in 1..n}] :
               \A k \in 1..n : f[k].id = MarketId(k)} : n \in 1..MaxMarkets}

InitScan ==
    /\ market = NoMarket
    /\ call = NoCall
    /\ result = NoResult
    /\ opp = NoOpp
    /\ estimate = NoEstimate
    /\ raws \in Payloads
    /\ \E mode \in Modes, min_profit \in {1, MaxProfit} :
          scan = [NoScan EXCEPT !.pc = "fetch", !.mode = mode, !.min_profit = min_profit]
    /\ IdleExecution /\ IdleTwice /\ IdleModels /\ IdleBregman

\* scanner.py 35-42, dashboard.py 75-86: fetch the markets and keep the binary ones.
Fetch ==
    /\ scan.pc = "fetch"
    /\ LET fetched == fetch_active_markets(raws)
       IN  scan' = IF fetched.raised
                   THEN [scan EXCEPT !.pc = "raised"]
                   ELSE [scan EXCEPT !.pc = "enrich", !.i = 1,
                                     !.binary = BinaryMarkets(fetched.value)]
    /\ UNCHANGED <<market, call, result, opp, estimate, raws>>
    /\ UNCHANGED <<executionVars, twiceVars, modelsVars, bregmanVars>>

\* scanner.py 45-52: both books are fetched inside one try and attached after
\* both fetches; an exception from either leaves the market as it was.
\* dashboard.py 68-72, 88-96: each fetch has its own handler that turns an
\* exception into None, and both results are attached.
Enriched(m, mode, fy, fn) ==
    IF mode = "cli"
    THEN IF fy.raised \/ fn.raised THEN m
         ELSE [m EXCEPT !.order_book_yes = fy.value, !.order_book_no = fn.value]
    ELSE [m EXCEPT !.order_book_yes = IF fy.raised THEN None ELSE fy.value,
                   !.order_book_no = IF fn.raised THEN None ELSE fn.value]

EnrichOne ==
    /\ scan.pc = "enrich"
    /\ scan.i <= Len(scan.binary)
    /\ \E fy \in BookFetches(scan.binary[scan.i].clob_token_ids[1]),
          fn \in BookFetches(scan.binary[scan.i].clob_token_ids[2]) :
          scan' = [scan EXCEPT !.binary[scan.i] = Enriched(@, scan.mode, fy, fn),
                               !.i = @ + 1]
    /\ UNCHANGED <<market, call, result, opp, estimate, raws>>
    /\ UNCHANGED <<executionVars, twiceVars, modelsVars, bregmanVars>>

EnrichDone ==
    /\ scan.pc = "enrich"
    /\ scan.i > Len(scan.binary)
    /\ scan' = [scan EXCEPT !.pc = "detect", !.i = 1]
    /\ UNCHANGED <<market, call, result, opp, estimate, raws>>
    /\ UNCHANGED <<executionVars, twiceVars, modelsVars, bregmanVars>>

\* scanner.py 55-58: detect(m, min_profit) with the default use_order_book=True.
\* dashboard.py 100-126: the price source picks use_order_book and clob_prices,
\* the diagnostics call get_order_book_prices for "Order book", and the
\* detector runs at min_profit and at 0.0.  An exception leaves the loop.
DetectOne ==
    /\ scan.pc = "detect"
    /\ scan.i <= Len(scan.binary)
    /\ LET m == scan.binary[scan.i]
           use_ob == scan.mode \in {"cli", "Order book"}
       IN  \E clob_prices \in (IF scan.mode = "CLOB price API" THEN ClobQuotes(m) ELSE {None}) :
              LET found == detect_single_condition_arbitrage(m, scan.min_profit, use_ob, clob_prices)
                  any == detect_single_condition_arbitrage(m, 0, use_ob, clob_prices)
              IN  scan' = IF found.raised
                          THEN [scan EXCEPT !.pc = "raised"]
                          ELSE [scan EXCEPT !.opps = @ \o found.opps,
                                            !.opps_any = IF scan.mode = "cli" THEN @
                                                         ELSE @ \o any.opps,
                                            !.detected = @ \cup {m.id},
                                            !.i = @ + 1]
    /\ UNCHANGED <<market, call, result, opp, estimate, raws>>
    /\ UNCHANGED <<executionVars, twiceVars, modelsVars, bregmanVars>>

DetectDone ==
    /\ scan.pc = "detect"
    /\ scan.i > Len(scan.binary)
    /\ scan' = [scan EXCEPT !.pc = "done"]
    /\ UNCHANGED <<market, call, result, opp, estimate, raws>>
    /\ UNCHANGED <<executionVars, twiceVars, modelsVars, bregmanVars>>

NextScan == Fetch \/ EnrichOne \/ EnrichDone \/ DetectOne \/ DetectDone

SpecScan == InitScan /\ [][NextScan]_vars

----------------------------------------------------------------------------
(* Properties of the detector, checked under Spec *)

Directions(opps) == {opps[i].direction : i \in DOMAIN opps}

PairSelected == call.made /\ ~result.raised /\ result.buy # None /\ result.sell # None

BuySum == The(result.buy).price_yes + The(result.buy).price_no

SellSum == The(result.sell).price_yes + The(result.sell).price_no

\* C1: whenever the detector has selected a price pair (buy, sell), it emits
\* a buy_both opportunity exactly when buy.sum < 1 and 1 - buy.sum >= min_profit,
\* and a sell_both opportunity exactly when sell.sum > 1 and
\* sell.sum - 1 >= min_profit, each check independent of the other; without a
\* selected pair it emits nothing.
C1_EmitIff ==
    /\ PairSelected =>
         /\ ("buy_both" \in Directions(result.opps))
              <=> (BuySum < One /\ One - BuySum >= call.min_profit)
         /\ ("sell_both" \in Directions(result.opps))
              <=> (SellSum > One /\ SellSum - One >= call.min_profit)
    /\ ~PairSelected => result.opps = <<>>

\* Both conditions hold for an explicit pair at a threshold equal to the
\* buy margin, and both opportunities are emitted.
C1_Witness ==
    /\ PairSelected
    /\ DictTruthy(call.clob_prices)
    /\ call.min_profit > 0
    /\ One - BuySum = call.min_profit
    /\ SellSum - One >= call.min_profit
    /\ Directions(result.opps) = {"buy_both", "sell_both"}

\* C2: neither the detector nor the estimator ever raises, whatever the
\* lengths of the market's lists and whatever its order books.
C2_NeverRaises == ~result.raised

ExplicitPair ==
    /\ call.made
    /\ call.clob_prices # None
    /\ The(call.clob_prices).buy # None
    /\ The(call.clob_prices).sell # None

PriceFields(o) ==
    [direction |-> o.direction, price_yes |-> o.price_yes, price_no |-> o.price_no,
     sum_prices |-> o.sum_prices, profit_margin |-> o.profit_margin]

\* What an explicit pair (b, s) yields at threshold t, from the pair alone.
PairBuyFields(b, t) ==
    LET sum == b.price_yes + b.price_no
    IN  IF sum < One /\ One - sum >= t
        THEN <<[direction |-> "buy_both", price_yes |-> b.price_yes,
                price_no |-> b.price_no, sum_prices |-> sum, profit_margin |-> One - sum]>>
        ELSE <<>>

PairSellFields(s, t) ==
    LET sum == s.price_yes + s.price_no
    IN  IF sum > One /\ sum - One >= t
        THEN <<[direction |-> "sell_both", price_yes |-> s.price_yes,
                price_no |-> s.price_no, sum_prices |-> sum, profit_margin |-> sum - One]>>
        ELSE <<>>

\* C3: with an explicit {buy, sell} pair the emitted opportunities and their
\* price fields are a function of the pair and min_profit alone: they do not
\* depend on use_order_book, the market's order books or its catalog prices.
C3_ExplicitPairOnly ==
    ExplicitPair =>
        /\ ~result.raised
        /\ [i \in DOMAIN result.opps |-> PriceFields(result.opps[i])]
             = PairBuyFields(The(The(call.clob_prices).buy), call.min_profit)
               \o PairSellFields(The(The(call.clob_prices).sell), call.min_profit)

\* An explicit pair is evaluated although order-book detection is requested
\* on a market whose books give other prices.
C3_Witness ==
    /\ ExplicitPair
    /\ call.use_order_book
    /\ get_order_book_prices(market).value # None
    /\ Len(market.outcome_prices) = 2
    /\ result.opps # <<>>
    /\ result.opps[1].price_yes # The(get_order_book_prices(market).value).buy.price_yes

BookRequested == call.made /\ ~DictTruthy(call.clob_prices) /\ call.use_order_book

HasLiquidity(ob) == ob # None /\ The(ob).bids # <<>> /\ The(ob).asks # <<>>

MaxOf(S) == CHOOSE x \in S : \A y \in S : y <= x

MinOf(S) == CHOOSE x \in S : \A y \in S : x <= y

\* C4: with no explicit pair and order-book detection requested, buy is
\* (best ask YES, best ask NO) and sell is (best bid YES, best bid NO) when
\* both books have resting liquidity, and otherwise buy and sell are both
\* the raw catalog prices.
C4_PriceSource ==
    BookRequested =>
        IF HasLiquidity(market.order_book_yes) /\ HasLiquidity(market.order_book_no)
        THEN /\ result.buy # None /\ result.sell # None
             /\ The(result.buy).price_yes = MinOf(LevelPrices(The(market.order_book_yes).asks))
             /\ The(result.buy).price_no = MinOf(LevelPrices(The(market.order_book_no).asks))
             /\ The(result.sell).price_yes = MaxOf(LevelPrices(The(market.order_book_yes).bids))
             /\ The(result.sell).price_no = MaxOf(LevelPrices(The(market.order_book_no).bids))
        ELSE /\ result.buy = result.sell
             /\ result.buy = get_prices(market)

\* C9: the output holds at most two opportunities, at most one per
\* direction, and a buy_both opportunity comes before a sell_both one.
C9_AtMostOnePerDirection ==
    /\ Len(result.opps) <= 2
    /\ \A i \in DOMAIN result.opps : result.opps[i].direction \in {"buy_both", "sell_both"}
    /\ \A i, j \in DOMAIN result.opps :
          i < j => result.opps[i].direction = "buy_both"
                   /\ result.opps[j].direction = "sell_both"

\* Both directions fire on crossed order books.
C9_Witness ==
    /\ BookRequested
    /\ get_order_book_prices(market).value # None
    /\ Len(result.opps) = 2

RECURSIVE IsSubsequence(_, _)
IsSubsequence(s, t) ==
    IF s = <<>> THEN TRUE
    ELSE IF t = <<>> THEN FALSE
    ELSE IF s[1] = t[1] THEN IsSubsequence(Tail(s), Tail(t))
    ELSE IsSubsequence(s, Tail(t))

\* C10: for the same market, flags and pair, the opportunities emitted at any
\* threshold t2 >= min_profit are a subsequence of those emitted at min_profit.
C10_ThresholdMonotone ==
    call.made =>
        \A t2 \in Thresholds :
            t2 >= call.min_profit =>
                IsSubsequence(
                    detect_single_condition_arbitrage(
                        market, t2, call.use_order_book, call.clob_prices).opps,
                    result.opps)

\* A threshold between the two margins keeps one of two opportunities.
C10_Witness ==
    /\ call.made
    /\ Len(result.opps) = 2
    /\ \E t2 \in Thresholds :
          /\ t2 > call.min_profit
          /\ Len(detect_single_condition_arbitrage(
                     market, t2, call.use_order_book, call.clob_prices).opps) = 1

----------------------------------------------------------------------------
(* Properties of the estimator, checked under SpecEstimate *)

BothBooks == estimate.made /\ opp.order_book_yes # None /\ opp.order_book_no # None

\* The sum of the sizes of a level list, by index.
TotalSize(levels) ==
    LET f[i \in 0..Len(levels)] == IF i = 0 THEN 0 ELSE f[i - 1] + levels[i][2]
    IN  f[Len(levels)]

\* The depth the estimator is to use: asks for buy_both, bids for sell_both.
SideDepth(ob) ==
    IF opp.direction = "buy_both" THEN TotalSize(The(ob).asks) ELSE TotalSize(The(ob).bids)

MinDepth == Min2(SideDepth(opp.order_book_yes), SideDepth(opp.order_book_no))

\* C5: with both order books present, max_extractable_usd is profit_margin
\* times the minimum of the two legs' depths and of max_size when given, a
\* leg's depth being its total ask size for buy_both and its total bid size
\* for sell_both.
C5_MarginTimesCap ==
    BothBooks =>
        estimate.usd = Some(opp.profit_margin
                            * (IF estimate.max_size = None THEN MinDepth
                               ELSE Min2(MinDepth, The(estimate.max_size))))

\* A sell_both opportunity whose legs differ in bid depth and in ask depth,
\* estimated under a max_size below both depths.
C5_Witness ==
    /\ BothBooks
    /\ opp.direction = "sell_both"
    /\ estimate.max_size # None
    /\ The(estimate.max_size) > 0
    /\ The(estimate.max_size) < MinDepth
    /\ TotalSize(The(opp.order_book_yes).asks) # TotalSize(The(opp.order_book_yes).bids)
    /\ estimate.usd = Some(opp.profit_margin * The(estimate.max_size))

\* C6: with both order books present and any max_size, max_extractable_usd
\* is never negative and never above profit_margin times the smaller depth.
C6_DepthCap ==
    BothBooks =>
        /\ The(estimate.usd) >= 0
        /\ The(estimate.usd) <= opp.profit_margin * MinDepth

\* C7: max_extractable_usd is None whenever a book is absent, and a number
\* whenever both are present, zero when a leg has no depth on the relevant
\* side.
C7_UnknownNotZero ==
    estimate.made =>
        /\ (opp.order_book_yes = None \/ opp.order_book_no = None) => estimate.usd = None
        /\ BothBooks => estimate.usd # None
        /\ (BothBooks /\ MinDepth = 0) => estimate.usd = Some(0)

----------------------------------------------------------------------------
(* Properties of the batch scans, checked under SpecScan *)

\* A raw market the scan has to process: it converts and passes the filter.
Processable(raw) ==
    /\ ~_raw_to_market(raw).raised
    /\ IsBinary(_raw_to_market(raw).value)

\* C8: when a scan ends, by returning or by an exception, every binary
\* market of the batch has been passed to the detector, whatever failed
\* for the other markets of the batch.
C8_FailuresAreLocal ==
    scan.pc \in {"done", "raised"} =>
        \A k \in DOMAIN raws : Processable(raws[k]) => raws[k].id \in scan.detected

----------------------------------------------------------------------------
(* Properties of two detector calls in a row, checked under SpecTwice *)

----------------------------------------------------------------------------
(* Properties of ConditionPrices, checked under Spec on every pair the
   detector selects (catalog, order-book and explicit pairs) *)

\* C12: for every ConditionPrices, sum_prices is price_yes + price_no, at
\* most one of arbitrage_up and arbitrage_down is true, profit_margin is
\* |sum_prices - 1| and so never negative, and profit_margin is 0 exactly
\* when neither flag is true, that is exactly when sum_prices is 1.
C12_PairInvariants ==
    \A cp \in result.buy \cup result.sell :
        /\ sum_prices(cp) = cp.price_yes + cp.price_no
        /\ ~(arbitrage_up(cp) /\ arbitrage_down(cp))
        /\ profit_margin(cp) = Abs(sum_prices(cp) - One)
        /\ profit_margin(cp) >= 0
        /\ (profit_margin(cp) = 0) <=> (~arbitrage_up(cp) /\ ~arbitrage_down(cp))
        /\ (~arbitrage_up(cp) /\ ~arbitrage_down(cp)) <=> (sum_prices(cp) = One)

\* A call that selected a pair below 1, and one at exactly 1 or above it.
C12_Witness ==
    /\ PairSelected
    /\ arbitrage_down(The(result.buy))
    /\ profit_margin(The(result.buy)) > 0
    /\ ~arbitrage_down(The(result.sell))

----------------------------------------------------------------------------
(* arbitrage/bregman.py: frank_wolfe_oracle.  A vector is a sequence of
   integers (index k here is index k-1 of the array), a matrix a sequence
   of rows. *)

RECURSIVE ArgminFrom(_, _, _)
\* A scan that moves to a later index on a tie.
ArgminFrom_Last(a, k, best) ==
    IF k > Len(a) THEN best
    ELSE ArgminFrom(a, k + 1, IF a[k] <= a[best] THEN k ELSE best)

\* The scan of np.argmin: the index kept moves only to a strictly smaller entry.
ArgminFrom(a, k, best) ==
    IF k > Len(a) THEN best
    ELSE ArgminFrom(a, k + 1, IF a[k] < a[best] THEN k ELSE best)

np_argmin(a) == ArgminFrom(a, 2, 1)

np_zeros_like(a) == [k \in 1..Len(a) |-> 0]

frank_wolfe_oracle(gradient, constraint_matrix, constraint_rhs) ==
    LET i == np_argmin(gradient)
        z == np_zeros_like(gradient)
    IN  [z EXCEPT ![i] = 1]

RECURSIVE DotUpTo(_, _, _)
DotUpTo(u, v, k) == IF k = 0 THEN 0 ELSE u[k] * v[k] + DotUpTo(u, v, k - 1)

Dot(u, v) == DotUpTo(u, v, Len(u))

\* The polytope of a constraint system: the x in [0, 1]^n with A x = b.
Feasible(x, A, b) ==
    /\ \A k \in DOMAIN x : 0 <= x[k] /\ x[k] <= 1
    /\ \A r \in DOMAIN A : Dot(A[r], x) = b[r]

Corners(n) == [1..n -> {0, 1}]

----------------------------------------------------------------------------
(* The oracle as a state machine: a gradient and a constraint system, then
   the call *)

Gradients == UNION {[1..n -> -1..MaxGrad] : n \in 1..MaxDim}

Ones(n) == [k \in 1..n |-> 1]

Unit(n, j) == [k \in 1..n |-> IF k = j THEN 1 ELSE 0]

\* Constraint systems over n coordinates: the probability simplex (one row of
\* ones, right-hand side 1), and the simplex with one coordinate pinned to 0
\* or to 1 by a second row.  Each has a non-empty polytope.
Systems(n) ==
    {[A |-> <<Ones(n)>>, b |-> <<1>>]}
    \cup {s \in {[A |-> <<Ones(n), Unit(n, j)>>, b |-> <<1, v>>] : j \in 1..n, v \in {0, 1}} :
             \E x \in Corners(n) : Feasible(x, s.A, s.b)}

InitOracle ==
    /\ market = NoMarket
    /\ call = NoCall
    /\ result = NoResult
    /\ opp = NoOpp
    /\ estimate = NoEstimate
    /\ raws = <<>>
    /\ scan = NoScan
    /\ IdleExecution /\ IdleTwice /\ IdleModels
    /\ \E g \in Gradients : \E s \in Systems(Len(g)) :
          oracle = [made |-> FALSE, gradient |-> g, constraint_matrix |-> s.A,
                    constraint_rhs |-> s.b, z |-> <<>>]
    /\ theta = <<>>
    /\ projection = NoProjection

\* One call of frank_wolfe_oracle, which builds a new array and writes to no
\* argument.
Oracle ==
    /\ ~oracle.made
    /\ oracle' = [oracle EXCEPT !.made = TRUE,
                     !.z = frank_wolfe_oracle(oracle.gradient, oracle.constraint_matrix,
                                              oracle.constraint_rhs)]
    /\ UNCHANGED <<market, call, result, opp, estimate, raws, scan>>
    /\ UNCHANGED <<executionVars, twiceVars, modelsVars, theta, projection>>

NextOracle == Oracle

SpecOracle == InitOracle /\ [][NextOracle]_vars

----------------------------------------------------------------------------
(* Properties of the extraction oracle, checked under SpecOracle *)

\* C13: frank_wolfe_oracle returns a point of the polytope defined by the
\* constraint matrix and right-hand side it is given, and that point
\* minimises gradient . x over the polytope (compared here with the
\* polytope's 0/1 points, which are vertices of it).
C13_VertexOfGivenPolytope ==
    oracle.made =>
        /\ Feasible(oracle.z, oracle.constraint_matrix, oracle.constraint_rhs)
        /\ \A y \in Corners(Len(oracle.gradient)) :
              Feasible(y, oracle.constraint_matrix, oracle.constraint_rhs)
                  => Dot(oracle.gradient, oracle.z) <= Dot(oracle.gradient, y)

IsSimplex == oracle.constraint_matrix = <<Ones(Len(oracle.gradient))>> /\ oracle.constraint_rhs = <<1>>

\* C14: over the probability simplex the oracle returns a standard basis
\* vector: exactly one coordinate i is 1 and the others are 0, gradient[i] is
\* a minimum of the gradient, and on ties i is the lowest such index.
C14_BasisAtFirstMinimum ==
    (oracle.made /\ IsSimplex) =>
        \E i \in DOMAIN oracle.gradient :
            /\ oracle.z = Unit(Len(oracle.gradient), i)
            /\ \A j \in DOMAIN oracle.gradient : oracle.gradient[i] <= oracle.gradient[j]
            /\ \A j \in 1..(i - 1) : oracle.gradient[j] > oracle.gradient[i]

\* A call over the simplex whose gradient has its minimum twice, the first
\* time after a larger entry.
C14_Witness ==
    /\ oracle.made
    /\ IsSimplex
    /\ \E i, j \in DOMAIN oracle.gradient :
          /\ 1 < i /\ i < j
          /\ oracle.gradient[i] = oracle.gradient[j]
          /\ oracle.gradient[1] > oracle.gradient[i]
          /\ oracle.z[i] = 1

----------------------------------------------------------------------------
(* data/models.py: OrderBook.vwap_buy and vwap_sell.  The quotient
   cost / size is kept exact as the fraction [num, den]. *)

\* Python's order on (price, size) tuples.
TupleLess(a, b) == a[1] < b[1] \/ (a[1] = b[1] /\ a[2] < b[2])

RECURSIVE InsertLevel(_, _, _)
InsertLevel(x, s, reverse) ==
    IF s = <<>> THEN <<x>>
    ELSE IF (IF reverse THEN TupleLess(s[1], x) ELSE TupleLess(x, s[1]))
    THEN <<x>> \o s
    ELSE <<s[1]>> \o InsertLevel(x, Tail(s), reverse)

RECURSIVE sorted(_, _)
\* sorted(levels) and sorted(levels, reverse=True): a new list, the argument
\* is left as it is.
sorted(levels, reverse) ==
    IF levels = <<>> THEN <<>>
    ELSE InsertLevel(levels[Len(levels)], sorted(SubSeq(levels, 1, Len(levels) - 1), reverse),
                     reverse)

RECURSIVE WalkLevels(_, _, _)
\* The loop of vwap_buy / vwap_sell over the levels in the order given:
\* fill = min(remaining, level size), and break once remaining <= 0.
WalkLevels(levels, remaining, cost) ==
    IF levels = <<>> THEN [remaining |-> remaining, cost |-> cost]
    ELSE LET fill == Min2(remaining, levels[1][2])
             cost2 == cost + levels[1][1] * fill
             remaining2 == remaining - fill
         IN  IF remaining2 <= 0 THEN [remaining |-> remaining2, cost |-> cost2]
             ELSE WalkLevels(Tail(levels), remaining2, cost2)

VwapOf(walk, size) ==
    IF walk.remaining > 0 THEN None
    ELSE Some(IF size > 0 THEN [num |-> walk.cost, den |-> size] ELSE [num |-> 0, den |-> 1])

\* vwap_buy that walks the asks in the order they are stored.
vwap_buy_StoredOrder(ob, size) == VwapOf(WalkLevels(ob.asks, size, 0), size)

vwap_buy(ob, size) == VwapOf(WalkLevels(sorted(ob.asks, FALSE), size, 0), size)

vwap_sell(ob, size) == VwapOf(WalkLevels(sorted(ob.bids, TRUE), size, 0), size)

----------------------------------------------------------------------------
(* An order book as a state machine: a book, then vwap calls on it *)

VwapLevelLists == SeqsUpTo((1..MaxPrice) \X (1..MaxSize), MaxLevels)

VwapBooks ==
    {OrderBook("a", ba[1], ba[2]) :
        ba \in {x \in VwapLevelLists \X VwapLevelLists : Len(x[1]) + Len(x[2]) <= MaxLevels}}

\* Sizes asked for: none, and up to one more than a level can hold.
VwapSizes == 0..(MaxSize + 1)

InitVwap ==
    /\ market = NoMarket
    /\ call = NoCall
    /\ result = NoResult
    /\ opp = NoOpp
    /\ estimate = NoEstimate
    /\ raws = <<>>
    /\ scan = NoScan
    /\ IdleExecution /\ IdleTwice /\ IdleBregman
    /\ book \in VwapBooks
    /\ vwap = NoVwap

VwapBuy ==
    \E size \in VwapSizes :
        /\ ~vwap.made
        /\ vwap' = [made |-> TRUE, side |-> "buy", size |-> size,
                    value |-> vwap_buy(book, size)]
        /\ UNCHANGED <<market, call, result, opp, estimate, raws, scan>>
        /\ UNCHANGED <<executionVars, twiceVars, book, bregmanVars>>

VwapSell ==
    \E size \in VwapSizes :
        /\ ~vwap.made
        /\ vwap' = [made |-> TRUE, side |-> "sell", size |-> size,
                    value |-> vwap_sell(book, size)]
        /\ UNCHANGED <<market, call, result, opp, estimate, raws, scan>>
        /\ UNCHANGED <<executionVars, twiceVars, book, bregmanVars>>

NextVwap == VwapBuy \/ VwapSell

SpecVwap == InitVwap /\ [][NextVwap]_vars

----------------------------------------------------------------------------
(* Properties of the vwap calls, checked under SpecVwap *)

\* The levels a call consumes, as stored: the asks for a buy, the bids for a sell.
VwapSide == IF vwap.side = "buy" THEN book.asks ELSE book.bids

\* Level j is consumed before level i: a lower price for a buy, a higher one
\* for a sell, the stored position between equal prices.
Ahead(levels, j, i) ==
    \/ (IF vwap.side = "buy" THEN levels[j][1] < levels[i][1] ELSE levels[j][1] > levels[i][1])
    \/ (levels[j][1] = levels[i][1] /\ j < i)

AheadSize(levels, i) ==
    LET f[k \in 0..Len(levels)] ==
            IF k = 0 THEN 0
            ELSE f[k - 1] + (IF Ahead(levels, k, i) THEN levels[k][2] ELSE 0)
    IN  f[Len(levels)]

\* What level i gives when every level ahead of it is filled fully first.
FillAt(levels, i, size) ==
    LET left == size - AheadSize(levels, i)
    IN  Min2(levels[i][2], IF left > 0 THEN left ELSE 0)

FilledCost(levels, size) ==
    LET f[k \in 0..Len(levels)] ==
            IF k = 0 THEN 0 ELSE f[k - 1] + levels[k][1] * FillAt(levels, k, size)
    IN  f[Len(levels)]

\* C15: for size > 0, vwap_buy returns None exactly when the asks hold less
\* than size in total; otherwise it returns (sum of price x fill) / size with
\* the asks filled in ascending price order whatever order they are stored
\* in, each level fully before the next.  vwap_sell is the same on the bids
\* in descending price order.
C15_Vwap ==
    (vwap.made /\ vwap.size > 0) =>
        /\ (vwap.value = None) <=> (TotalSize(VwapSide) < vwap.size)
        /\ vwap.value # None =>
              /\ The(vwap.value).den > 0
              /\ The(vwap.value).num * vwap.size
                     = FilledCost(VwapSide, vwap.size) * The(vwap.value).den

\* A buy that needs both of two asks stored with the dearer one first.
C15_Witness ==
    /\ vwap.made
    /\ vwap.side = "buy"
    /\ Len(book.asks) = 2
    /\ book.asks[1][1] > book.asks[2][1]
    /\ vwap.size > book.asks[2][2]
    /\ vwap.size < TotalSize(book.asks)
    /\ vwap.value # None

----------------------------------------------------------------------------
(* arbitrage/bregman.py: bregman_projection_lmsr.  Vector entries are in
   ticks; the default bounds (1e-6, 1 - 1e-6) are the smallest and the
   largest tick inside (0, 1).  scipy.optimize.minimize is library code:
   its result is any vector of the right length with any success flag. *)

DefaultBounds == <<1, One - 1>>

\* np.clip(a, lo, hi) with no out argument: a new array.
np_clip(a, lo, hi) ==
    [k \in DOMAIN a |-> IF a[k] < lo THEN lo ELSE IF a[k] > hi THEN hi ELSE a[k]]

\* What scipy.optimize.minimize may hand back for a problem in n unknowns.
MinimizeResults(n, bounds) ==
    {[x |-> x, success |-> ok] : x \in [1..n -> {bounds[1], Half, bounds[2]}], ok \in BOOLEAN}

\* A projector that clips the caller's array itself (np.clip(..., out=theta)).
bregman_projection_lmsr_ClipsInPlace(th, equality_constraints, equality_values, bounds, res) ==
    LET x0 == np_clip(th, bounds[1], bounds[2])
    IN  [theta |-> x0, x0 |-> x0, mu |-> res.x, success |-> res.success]

\* The call: "theta" is rebound to np.asarray(theta, dtype=float), which is
\* the caller's array itself when that is a float array; x0 and the
\* objective's theta_safe are new arrays made by np.clip; the result is
\* (res.x, res.success) whatever res.success is.  The record gives the
\* caller's array after the call, the start point and what is returned.
bregman_projection_lmsr(th, equality_constraints, equality_values, bounds, res) ==
    LET x0 == np_clip(th, bounds[1], bounds[2])
    IN  [theta |-> th, x0 |-> x0, mu |-> res.x, success |-> res.success]

----------------------------------------------------------------------------
(* The projector as a state machine: the caller's array, then the call *)

\* Arrays of one or two entries, from 0 (below the lower bound) to One + 1
\* (above the upper one).
Thetas == UNION {[1..n -> 0..(One + 1)] : n \in 1..2}

InitProject ==
    /\ market = NoMarket
    /\ call = NoCall
    /\ result = NoResult
    /\ opp = NoOpp
    /\ estimate = NoEstimate
    /\ raws = <<>>
    /\ scan = NoScan
    /\ IdleExecution /\ IdleTwice /\ IdleModels
    /\ oracle = NoOracle
    /\ theta \in Thetas
    /\ projection = NoProjection

\* One call with the sum-to-one constraint and the default bounds.
Project ==
    \E res \in MinimizeResults(Len(theta), DefaultBounds) :
        LET ret == bregman_projection_lmsr(theta, <<Ones(Len(theta))>>, <<One>>,
                                           DefaultBounds, res)
        IN  /\ ~projection.made
            /\ theta' = ret.theta
            /\ projection' = [made |-> TRUE, mu |-> ret.mu, success |-> ret.success]
            /\ UNCHANGED <<market, call, result, opp, estimate, raws, scan>>
            /\ UNCHANGED <<executionVars, twiceVars, modelsVars, oracle>>

NextProject == Project

SpecProject == InitProject /\ [][NextProject]_vars

----------------------------------------------------------------------------
(* Properties of the projector, checked under SpecProject *)

\* C16: bregman_projection_lmsr does not change the array theta it is given,
\* whether the solver reports success or not, and whether or not theta has
\* entries outside the bounds: those are clipped in copies only.
C16_ThetaUntouched == [][theta' = theta]_vars

\* A call on an array with an entry below the lower bound and one above the
\* upper bound, which the solver failed on.
C16_Witness ==
    /\ projection.made
    /\ ~projection.success
    /\ \E j, k \in DOMAIN theta : theta[j] < DefaultBounds[1] /\ theta[k] > DefaultBounds[2]

----------------------------------------------------------------------------
(* Properties of the emitted opportunities, checked under Spec *)

\* The pair an opportunity was emitted for: buy for buy_both, sell for sell_both.
Triggering(o) == IF o.direction = "buy_both" THEN The(result.buy) ELSE The(result.sell)

\* C19: every emitted opportunity, whatever the price source, carries the
\* fields of the pair that triggered it: its prices and token ids, sum_prices
\* = price_yes + price_no, profit_margin = |sum_prices - 1| >= min_profit,
\* sum_prices < 1 for buy_both and > 1 for sell_both, and its order books are
\* the market's order books at the time of the call.
C19_OppCarriesPair ==
    call.made =>
        \A i \in DOMAIN result.opps :
            LET o == result.opps[i]
            IN  /\ o.direction \in {"buy_both", "sell_both"}
                /\ o.market_id = market.id
                /\ o.price_yes = Triggering(o).price_yes
                /\ o.price_no = Triggering(o).price_no
                /\ o.token_id_yes = Triggering(o).token_id_yes
                /\ o.token_id_no = Triggering(o).token_id_no
                /\ o.sum_prices = o.price_yes + o.price_no
                /\ o.profit_margin = Abs(o.sum_prices - One)
                /\ o.profit_margin >= call.min_profit
                /\ o.direction = "buy_both" => o.sum_prices < One
                /\ o.direction = "sell_both" => o.sum_prices > One
                /\ o.order_book_yes = market.order_book_yes
                /\ o.order_book_no = market.order_book_no

\* An explicit pair that emitted a sell_both on a market that has its order
\* books, at a threshold above 0.
C19_Witness ==
    /\ ExplicitPair
    /\ call.min_profit > 0
    /\ market.order_book_yes # None
    /\ market.order_book_no # None
    /\ \E i \in DOMAIN result.opps : result.opps[i].direction = "sell_both"

\* The pair is the raw catalog pair: no explicit pair, and either order-book
\* detection is off or a book is missing or has an empty side.
RawSource ==
    /\ call.made
    /\ ~DictTruthy(call.clob_prices)
    /\ \/ ~call.use_order_book
       \/ ~(HasLiquidity(market.order_book_yes) /\ HasLiquidity(market.order_book_no))

\* C20: from the raw catalog source buy and sell are the same pair; when buy
\* and sell are the same pair the detector emits at most one opportunity,
\* whatever the threshold; two opportunities come only from an order-book or
\* explicit pair whose buy (ask) sum is below 1 while its sell (bid) sum is
\* above 1.
C20_TwoNeedCrossedPair ==
    call.made =>
        /\ RawSource => result.buy = result.sell
        /\ result.buy = result.sell => Len(result.opps) <= 1
        /\ Len(result.opps) = 2 => ~RawSource /\ BuySum < One /\ SellSum > One

\* Order-book detection that fell back to the catalog pair and emitted one
\* opportunity at threshold 0.
C20_Witness ==
    /\ RawSource
    /\ call.use_order_book
    /\ call.min_profit = 0
    /\ PairSelected
    /\ result.buy = result.sell
    /\ Len(result.opps) = 1

----------------------------------------------------------------------------
(* execution/client.py: ExecutionClient.  The trading library
   (py_clob_client) and the service behind it are the environment: an
   import, the construction of the trading client and each
   create_and_post_order either raise or return.  A response is the pair of
   its "orderID" and "order_id" entries, each absent (None) or a string;
   the service holds an order exactly when its response reports a non-empty
   id. *)

ExecutionResult(success, order_ids, message, dry_run) ==
    [success |-> success, order_ids |-> order_ids, message |-> message, dry_run |-> dry_run]

\* The guards of execute_buy_both / execute_sell_both with the dry_run test left out.
ExecuteRoute_IgnoresDryRun(direction, method, dry_run) ==
    IF direction # method THEN "mismatch" ELSE "place"

\* Lines 94-105 and 113-124: the direction test first, then dry_run, else
\* the orders are placed.
ExecuteRoute(direction, method, dry_run) ==
    IF direction # method THEN "mismatch"
    ELSE IF dry_run THEN "dry"
    ELSE "place"

\* The two legs with the NO leg first.
Legs_NoFirst(o, side) ==
    <<[token_id |-> o.token_id_no, price |-> o.price_no, side |-> side],
      [token_id |-> o.token_id_yes, price |-> o.price_yes, side |-> side]>>

\* Lines 131-134 and 149-152: the list the loop runs over.
Legs(o, side) ==
    <<[token_id |-> o.token_id_yes, price |-> o.price_yes, side |-> side],
      [token_id |-> o.token_id_no, price |-> o.price_no, side |-> side]>>

\* Lines 137 and 155: the value under "orderID" when the response has that
\* entry, else the one under "order_id", else None.
OrderIdOf(resp) == IF resp.orderID # None THEN resp.orderID ELSE resp.order_id

\* Lines 138 and 156: "if oid".
Truthy(oid) == oid # None /\ The(oid) # ""

\* The responses of the service to a post it gives the id to: accepted and
\* reported under either name, refused with an empty id, or an empty response.
Responses(id) ==
    {[orderID |-> Some(id), order_id |-> None],
     [orderID |-> None, order_id |-> Some(id)],
     [orderID |-> Some(""), order_id |-> None],
     [orderID |-> None, order_id |-> None]}

\* The ids of the orders the service holds after answering with resp.
Held(resp) == {id \in resp.orderID \cup resp.order_id : id # ""}

\* Opportunities as the detector emits them: buy_both below 1, sell_both above.
ExecOpps ==
    {[NoOpp EXCEPT !.market_id = "m",
                   !.direction = IF pq[1] + pq[2] < One THEN "buy_both" ELSE "sell_both",
                   !.price_yes = pq[1], !.price_no = pq[2],
                   !.sum_prices = pq[1] + pq[2], !.profit_margin = Abs(pq[1] + pq[2] - One),
                   !.token_id_yes = "ty", !.token_id_no = "tn"] :
        pq \in {x \in (1..MaxPrice) \X (1..MaxPrice) : x[1] + x[2] # One}}

ExecSizes == 1..MaxSize

----------------------------------------------------------------------------
(* The execution client as a state machine: a client that has or has not
   built its trading client yet, an opportunity, then one execute_* call *)

InitExec ==
    /\ market = NoMarket
    /\ call = NoCall
    /\ result = NoResult
    /\ opp \in ExecOpps
    /\ estimate = NoEstimate
    /\ raws = <<>>
    /\ scan = NoScan
    /\ IdleTwice /\ IdleModels /\ IdleBregman
    /\ \E cached \in {None, Some("ClobClient")} : exec = [NoExec EXCEPT !._client = cached]
    /\ exchange = NoExchange

\* Lines 94-105 / 113-124: the client after the guards of execute_buy_both
\* (method "buy_both") or execute_sell_both: returned, or about to place.
Entered(method, size, dry_run) ==
    LET route == ExecuteRoute(opp.direction, method, dry_run)
    IN  [exec EXCEPT
            !.method = method, !.size = size, !.dry_run = dry_run,
            !.pc = IF route = "place" THEN "get_client" ELSE "returned",
            !.ret = IF route = "mismatch"
                    THEN Some(ExecutionResult(FALSE, <<>>, "mismatch", dry_run))
                    ELSE IF route = "dry"
                    THEN Some(ExecutionResult(TRUE, <<>>, "dry run", TRUE))
                    ELSE None]

ExecuteBuyBoth ==
    \E size \in ExecSizes, dry_run \in BOOLEAN :
        /\ exec.pc = "idle"
        /\ exec' = Entered("buy_both", size, dry_run)
        /\ UNCHANGED <<market, call, result, opp, estimate, raws, scan, exchange>>
        /\ UNCHANGED <<twiceVars, modelsVars, bregmanVars>>

ExecuteSellBoth ==
    \E size \in ExecSizes, dry_run \in BOOLEAN :
        /\ exec.pc = "idle"
        /\ exec' = Entered("sell_both", size, dry_run)
        /\ UNCHANGED <<market, call, result, opp, estimate, raws, scan, exchange>>
        /\ UNCHANGED <<twiceVars, modelsVars, bregmanVars>>

\* Lines 127-129 / 145-147 with _get_client (61-86), all outside the try: the
\* import of the library can fail; a cached trading client is reused;
\* otherwise one is constructed and is cached only after its credentials
\* were set, which can fail too.
GetClient ==
    \E outcome \in {"import_error", "creds_error", "ok"} :
        /\ exec.pc = "get_client"
        /\ exec' =
              IF outcome = "import_error" THEN [exec EXCEPT !.pc = "raised"]
              ELSE IF exec._client # None THEN [exec EXCEPT !.pc = "post", !.leg = 1]
              ELSE IF outcome = "creds_error"
              THEN [exec EXCEPT !.pc = "raised", !.constructed = @ + 1]
              ELSE [exec EXCEPT !.pc = "post", !.leg = 1, !.constructed = @ + 1,
                                !._client = Some("ClobClient")]
        /\ UNCHANGED <<market, call, result, opp, estimate, raws, scan, exchange>>
        /\ UNCHANGED <<twiceVars, modelsVars, bregmanVars>>

\* One pass of the loop at lines 131-139 / 149-157 and what follows it: the
\* post of the current leg either raises, which the handler at 140-141 /
\* 158-159 turns into a failed result with the ids collected so far, or
\* returns a response whose id is appended when truthy; after the second
\* leg the successful result is returned (142 / 160).
PostOrder ==
    /\ exec.pc = "post"
    /\ LET side == IF exec.method = "buy_both" THEN "BUY" ELSE "SELL"
           leg == Legs(opp, side)[exec.leg]
           id == "o" \o ToString(Len(exchange.posts) + 1)
           post(raised) == [token_id |-> leg.token_id, price |-> leg.price,
                            size |-> exec.size, side |-> leg.side, raised |-> raised]
       IN  \/ /\ exchange' = [exchange EXCEPT !.posts = Append(@, post(TRUE))]
              /\ exec' = [exec EXCEPT !.pc = "returned",
                             !.ret = Some(ExecutionResult(FALSE, exec.order_ids, "error", FALSE))]
           \/ \E resp \in Responses(id) :
                 LET oid == OrderIdOf(resp)
                     order_ids == IF Truthy(oid) THEN Append(exec.order_ids, The(oid))
                                  ELSE exec.order_ids
                 IN  /\ exchange' = [posts |-> Append(exchange.posts, post(FALSE)),
                                     open |-> exchange.open \cup Held(resp)]
                     /\ exec' = IF exec.leg < 2
                                THEN [exec EXCEPT !.leg = @ + 1, !.order_ids = order_ids]
                                ELSE [exec EXCEPT !.pc = "returned", !.order_ids = order_ids,
                                         !.ret = Some(ExecutionResult(TRUE, order_ids,
                                                                      "placed", FALSE))]
    /\ UNCHANGED <<market, call, result, opp, estimate, raws, scan>>
    /\ UNCHANGED <<twiceVars, modelsVars, bregmanVars>>

NextExec == ExecuteBuyBoth \/ ExecuteSellBoth \/ GetClient \/ PostOrder

SpecExec == InitExec /\ [][NextExec]_vars

----------------------------------------------------------------------------
(* Properties of the execution client, checked under SpecExec *)

Returned == exec.pc = "returned"

\* C21: in a live call with the matching direction the YES leg is posted
\* before the NO leg; when the YES post raises, the NO leg is never posted;
\* when the NO post raises, the result has success = false, the YES order
\* the service accepted is still held by it and its id is in order_ids;
\* and a live result has success = true only after both posts returned
\* without raising.
C21_YesThenNo ==
    LET posts == exchange.posts
    IN  /\ Len(posts) <= 2
        /\ Len(posts) >= 1 => posts[1].token_id = opp.token_id_yes
        /\ Len(posts) = 2 => posts[2].token_id = opp.token_id_no /\ ~posts[1].raised
        /\ (Returned /\ Len(posts) = 2 /\ posts[2].raised) =>
              /\ ~The(exec.ret).success
              /\ \A id \in {"o1"} \cap exchange.open :
                    \E k \in DOMAIN The(exec.ret).order_ids : The(exec.ret).order_ids[k] = id
              /\ Len(The(exec.ret).order_ids) = Cardinality(exchange.open)
        /\ (Returned /\ ~The(exec.ret).dry_run /\ The(exec.ret).success) =>
              Len(posts) = 2 /\ ~posts[1].raised /\ ~posts[2].raised

\* A live call whose YES order was accepted and whose NO post raised.
C21_Witness ==
    /\ Returned
    /\ Len(exchange.posts) = 2
    /\ exchange.posts[2].raised
    /\ exchange.open = {"o1"}
    /\ The(exec.ret).order_ids = <<"o1">>

\* The call was made in dry-run mode or on an opportunity of the other direction.
NotLive == exec.pc # "idle" /\ (exec.dry_run \/ opp.direction # exec.method)

\* C22: execute_buy_both and execute_sell_both post no order and construct
\* no trading client when dry_run is true or the opportunity's direction is
\* not the method's; a direction mismatch returns success = false with empty
\* order_ids, in dry-run mode too, and a matching dry run returns success =
\* true with empty order_ids.
C22_NoTradeUnlessLive ==
    NotLive =>
        /\ exchange = NoExchange
        /\ exec.constructed = 0
        /\ Returned
        /\ The(exec.ret).order_ids = <<>>
        /\ The(exec.ret).success <=> (opp.direction = exec.method)

\* A dry run on an opportunity of the other direction, and none of the
\* client's state touched.
C22_Witness ==
    /\ NotLive
    /\ exec.dry_run
    /\ opp.direction # exec.method
    /\ exec._client = None
    /\ ~The(exec.ret).success

====
